---- MODULE Spec2Model ----
(***************************************************************************)
(* Model of the business agent of src/src/agent/graph.py: the three nodes  *)
(* input_node, processing_node and recommendation_node, the linear graph   *)
(* build_graph wires them into, and run_agent which drives one invocation. *)
(*                                                                         *)
(* Python numbers are modelled exactly.  The inputs are non-negative       *)
(* integers; every quotient, difference and product the code computes is   *)
(* an IEEE-754 binary64 value, kept here as (-1)^neg * m * 2^e with the    *)
(* mantissa m an arbitrary-precision natural (a sequence of 15-bit limbs,  *)
(* least significant first) and rounded to nearest, ties to even, after    *)
(* every operation, as CPython does.  The ":.2f" conversion is the         *)
(* correctly rounded two-decimal rendering of that binary value.           *)
(***************************************************************************)
EXTENDS Integers, Sequences, FiniteSets, TLC

\* ---------------------------------------------------------------- bounds
MaxSales == 2
MaxCosts == 5
MaxCustomers == 5
MaxCalls == 2

\* ------------------------------------------- arbitrary-precision naturals
LimbBits == 15
Base == 32768
MantBits == 53
QuotBits == 55

Min(a, b) == IF a < b THEN a ELSE b
Max(a, b) == IF a > b THEN a ELSE b

\* 2^k for 0 <= k <= LimbBits
Pow2(k) == <<1, 2, 4, 8, 16, 32, 64, 128, 256, 512, 1024, 2048, 4096, 8192, 16384, 32768>>[k + 1]

\* the number of bits of n, and the number of trailing zero bits of n > 0, for n < Base
IntBitLen(n) == Cardinality({k \in 0..(LimbBits - 1) : Pow2(k) <= n})
IntTrailingZeros(n) == Cardinality({k \in 1..(LimbBits - 1) : n % Pow2(k) = 0})

Limb(a, i) == IF 1 <= i /\ i <= Len(a) THEN a[i] ELSE 0

\* a without its top limb when that is zero
BTrim(a) == IF Len(a) > 0 /\ a[Len(a)] = 0 THEN SubSeq(a, 1, Len(a) - 1) ELSE a

RECURSIVE BNorm(_)
BNorm(a) == IF a = <<>> THEN a
            ELSE IF a[Len(a)] = 0 THEN BNorm(SubSeq(a, 1, Len(a) - 1)) ELSE a

RECURSIVE BFromInt(_)
BFromInt(n) == IF n = 0 THEN <<>> ELSE <<n % Base>> \o BFromInt(n \div Base)

RECURSIVE BCmpAt(_, _, _)
BCmpAt(a, b, i) == IF i = 0 THEN 0
                   ELSE IF a[i] > b[i] THEN 1
                   ELSE IF a[i] < b[i] THEN -1
                   ELSE BCmpAt(a, b, i - 1)

\* -1, 0 or 1 as a < b, a = b or a > b
BCmp(a, b) == IF Len(a) > Len(b) THEN 1
              ELSE IF Len(a) < Len(b) THEN -1
              ELSE BCmpAt(a, b, Len(a))

RECURSIVE BAddAt(_, _, _, _)
BAddAt(a, b, i, c) ==
    IF i > Len(a) /\ i > Len(b) THEN (IF c = 0 THEN <<>> ELSE <<c>>)
    ELSE LET s == Limb(a, i) + Limb(b, i) + c
         IN  <<s % Base>> \o BAddAt(a, b, i + 1, s \div Base)

BAdd(a, b) == BAddAt(a, b, 1, 0)

RECURSIVE BSubAt(_, _, _, _)
BSubAt(a, b, i, c) ==
    IF i > Len(a) THEN <<>>
    ELSE LET s == a[i] - Limb(b, i) - c
         IN  IF s < 0 THEN <<s + Base>> \o BSubAt(a, b, i + 1, 1)
                      ELSE <<s>> \o BSubAt(a, b, i + 1, 0)

\* a - b for a >= b
BSub(a, b) == BNorm(BSubAt(a, b, 1, 0))

RECURSIVE BMulAt(_, _, _, _)
BMulAt(a, k, i, c) ==
    IF i > Len(a) THEN (IF c = 0 THEN <<>> ELSE <<c>>)
    ELSE LET s == a[i] * k + c
         IN  <<s % Base>> \o BMulAt(a, k, i + 1, s \div Base)

\* a * k for 0 <= k < Base
BMulSmall(a, k) == IF k = 0 THEN <<>> ELSE BMulAt(a, k, 1, 0)

RECURSIVE BDivAt(_, _, _, _)
BDivAt(a, k, i, r) ==
    IF i = 0 THEN <<>>
    ELSE LET s == r * Base + a[i]
         IN  BDivAt(a, k, i - 1, s % k) \o <<s \div k>>

\* a \div k for 0 < k < Base
BDivSmall(a, k) == BNorm(BDivAt(a, k, Len(a), 0))

RECURSIVE BModAt(_, _, _, _)
BModAt(a, k, i, r) == IF i = 0 THEN r ELSE BModAt(a, k, i - 1, (r * Base + a[i]) % k)

\* a % k for 0 < k < Base
BModSmall(a, k) == BModAt(a, k, Len(a), 0)

\* a * 2^n
BShl(a, n) ==
    IF a = <<>> \/ n = 0 THEN a
    ELSE LET w == n \div LimbBits
             p == Pow2(n % LimbBits)
         IN  BTrim([i \in 1..(Len(a) + w + 1) |->
                      ((Limb(a, i - w) * p) % Base) + ((Limb(a, i - w - 1) * p) \div Base)])

\* a \div 2^n
BShr(a, n) ==
    IF n = 0 THEN a
    ELSE IF n \div LimbBits >= Len(a) THEN <<>>
    ELSE LET w == n \div LimbBits
             p == Pow2(n % LimbBits)
         IN  BTrim([i \in 1..(Len(a) - w) |->
                      (a[i + w] \div p) + ((Limb(a, i + w + 1) % p) * (Base \div p))])

\* bit k of a, and whether the k lowest bits of a are all zero
BBit(a, k) == (Limb(a, (k \div LimbBits) + 1) \div Pow2(k % LimbBits)) % 2
BLowZero(a, k) == /\ \A i \in 1..(k \div LimbBits) : Limb(a, i) = 0
                  /\ Limb(a, (k \div LimbBits) + 1) % Pow2(k % LimbBits) = 0

RECURSIVE BMul(_, _)
BMul(a, b) == IF a = <<>> \/ b = <<>> THEN <<>>
              ELSE BAdd(BMulSmall(a, b[1]), BShl(BMul(a, Tail(b)), LimbBits))

BBitLen(a) == IF a = <<>> THEN 0 ELSE LimbBits * (Len(a) - 1) + IntBitLen(a[Len(a)])

BOdd(a) == a # <<>> /\ a[1] % 2 = 1

RECURSIVE TrailingZeros(_)
TrailingZeros(a) == IF a[1] = 0 THEN LimbBits + TrailingZeros(Tail(a))
                    ELSE IntTrailingZeros(a[1])

\* largest q with q * d <= r, searched downwards from the estimate q
RECURSIVE FixDigit(_, _, _)
FixDigit(q, r, d) == IF BCmp(BMulSmall(d, q), r) > 0 THEN FixDigit(q - 1, r, d) ELSE q

\* one quotient limb of r by d, where r < d * Base and the top limb of d is >= Base / 2
QuotDigit(r, d) ==
    IF BCmp(r, d) < 0 THEN 0
    ELSE LET top == Limb(r, Len(d) + 1) * Base + Limb(r, Len(d))
             est == top \div d[Len(d)]
         IN  FixDigit(IF est >= Base THEN Base - 1 ELSE est, r, d)

\* schoolbook long division of the limbs n[i..Len(n)] by d, most significant limb first
RECURSIVE DivLimbs(_, _, _)
DivLimbs(n, d, i) ==
    IF i > Len(n) THEN [q |-> <<>>, r |-> <<>>]
    ELSE LET hi == DivLimbs(n, d, i + 1)
             r  == BNorm(<<n[i]>> \o hi.r)
             qd == QuotDigit(r, d)
         IN  [q |-> <<qd>> \o hi.q, r |-> BSub(r, BMulSmall(d, qd))]

\* quotient and remainder of n by d > 0
BDivMod(n, d) ==
    IF Len(d) = 1 THEN [q |-> BDivSmall(n, d[1]), r |-> BFromInt(BModSmall(n, d[1]))]
    ELSE LET s  == LimbBits - IntBitLen(d[Len(d)])
             qr == DivLimbs(BShl(n, s), BShl(d, s), 1)
         IN  [q |-> BNorm(qr.q), r |-> BShr(qr.r, s)]

\* ------------------------------------------------------- binary64 numbers
FZero == [neg |-> FALSE, m |-> <<>>, e |-> 0]

\* the value (-1)^neg * m * 2^e with m made odd
FCanon(neg, m, e) ==
    IF m = <<>> THEN FZero
    ELSE LET z == TrailingZeros(m) IN [neg |-> neg, m |-> BShr(m, z), e |-> e + z]

\* the binary64 nearest to n * 2^e, or to a value strictly between n * 2^e
\* and (n + 1) * 2^e when sticky; ties go to the even mantissa
FRound(neg, n, e, sticky) ==
    LET len == BBitLen(n) IN
    IF len <= MantBits THEN FCanon(neg, n, e)
    ELSE LET sh == len - MantBits
             q  == BShr(n, sh)
             up == BBit(n, sh - 1) = 1 /\ (sticky \/ ~BLowZero(n, sh - 1) \/ BOdd(q))
         IN  FCanon(neg, IF up THEN BAdd(q, <<1>>) ELSE q, e + sh)

\* float(n) of a Python int n
FFromInt(n) == IF n < 0 THEN FCanon(TRUE, BFromInt(-n), 0) ELSE FCanon(FALSE, BFromInt(n), 0)

\* the binary64 nearest to (n / d) * 2^e for naturals n and d > 0
FQuot(neg, n, d, e) ==
    IF n = <<>> THEN FZero
    ELSE LET k  == Max(0, QuotBits + BBitLen(d) - BBitLen(n))
             qr == BDivMod(BShl(n, k), d)
         IN  FRound(neg, qr.q, e - k, qr.r # <<>>)

FMul(x, y) == FRound(x.neg # y.neg, BMul(x.m, y.m), x.e + y.e, FALSE)

FSub(x, y) ==
    LET emin == Min(x.e, y.e)
        a == BShl(x.m, x.e - emin)
        b == BShl(y.m, y.e - emin)
        c == BCmp(a, b)
    IN  IF y.m = <<>> THEN x
        ELSE IF x.m = <<>> THEN [y EXCEPT !.neg = ~y.neg]
        ELSE IF x.neg # y.neg THEN FRound(x.neg, BAdd(a, b), emin, FALSE)
        ELSE IF c = 0 THEN FZero
        ELSE IF c > 0 THEN FRound(x.neg, BSub(a, b), emin, FALSE)
        ELSE FRound(~x.neg, BSub(b, a), emin, FALSE)

FNeg(x) == IF x.m = <<>> THEN x ELSE [x EXCEPT !.neg = ~x.neg]

\* x > y and x >= y
FGT(x, y) == LET d == FSub(x, y) IN d.m # <<>> /\ ~d.neg
FGE(x, y) == LET d == FSub(x, y) IN d.m = <<>> \/ ~d.neg

\* ------------------------------------------------- the ":.2f" conversion
Digit == <<"0", "1", "2", "3", "4", "5", "6", "7", "8", "9">>

RECURSIVE DecStr(_)
DecStr(b) == IF b = <<>> THEN "" ELSE DecStr(BDivSmall(b, 10)) \o Digit[BModSmall(b, 10) + 1]

\* |x| * 100 rounded to the nearest integer, ties to even
Cents(x) ==
    LET n == BMulSmall(x.m, 100) IN
    IF x.e >= 0 THEN BShl(n, x.e)
    ELSE LET sh == -x.e
             q  == BShr(n, sh)
             up == BBit(n, sh - 1) = 1 /\ (~BLowZero(n, sh - 1) \/ BOdd(q))
         IN  IF up THEN BAdd(q, <<1>>) ELSE q

Format2f(x) ==
    LET c == Cents(x)
        w == BDivSmall(c, 100)
        f == BModSmall(c, 100)
    IN  (IF x.neg THEN "-" ELSE "") \o (IF w = <<>> THEN "0" ELSE DecStr(w))
        \o "." \o Digit[(f \div 10) + 1] \o Digit[(f % 10) + 1]

\* ---------------------------------------------------- Python values used
\* None, the empty dict, and a key that a dict does not have
None == [py |-> "None"]
EmptyDict == [k \in {} |-> None]
Absent == [py |-> "absent"]

\* d.get(k)
Get(d, k) == IF k \in DOMAIN d THEN d[k] ELSE None

\* a test for None only: an empty dict counts as a value
NotNone(v) == v # None

\* bool(v) for v None or a dict
Truthy(v) == v # None /\ v # EmptyDict

\* a fresh dict holding only k in place of the updated d
PutFresh(d, k, v) == [j \in {k} |-> v]

\* d after d[k] = v
Put(d, k, v) == [j \in DOMAIN d \cup {k} |-> IF j = k THEN v ELSE d[j]]

\* a raised exception, as the value an expression or a node yields
ValueError == [raise |-> "ValueError"]
ZeroDivisionError == [raise |-> "ZeroDivisionError"]
KeyError == [raise |-> "KeyError"]
TypeError == [raise |-> "TypeError"]
Raised(v) == "raise" \in DOMAIN v

\* the exception d[k] raises for d None or a dict, None when it raises none
ItemError(d, k) == IF d = None THEN TypeError ELSE IF k \in DOMAIN d THEN None ELSE KeyError

\* the first exception of a sequence of values, None when there is none
RECURSIVE FirstRaised(_)
FirstRaised(s) == IF s = <<>> THEN None
                  ELSE IF Raised(Head(s)) THEN Head(s) ELSE FirstRaised(Tail(s))

\* the arithmetic operators on numbers; an operand that raised propagates
Num(n) == FFromInt(n)
PySub(x, y) == IF Raised(x) THEN x ELSE IF Raised(y) THEN y ELSE FSub(x, y)
PyMul(x, y) == IF Raised(x) THEN x ELSE IF Raised(y) THEN y ELSE FMul(x, y)
PyDiv(x, y) == IF Raised(x) THEN x ELSE IF Raised(y) THEN y
               ELSE IF y.m = <<>> THEN ZeroDivisionError
               ELSE FQuot(x.neg # y.neg, x.m, y.m, x.e - y.e)

\* --------------------------------------------------------------- the nodes
\* input_node without its check
input_node_unchecked(state) == state

input_node(state) ==
    IF \/ ~Truthy(Get(state, "data"))
       \/ ~Truthy(Get(state.data, "today"))
       \/ ~Truthy(Get(state.data, "yesterday"))
    THEN ValueError
    ELSE state

\* sales - costs of one day
profit(day) == PySub(Num(day.sales), Num(day.costs))

\* cac with the guard customers >= 0: divides by zero customers
cac_unguarded(day) ==
    IF day.customers >= 0 THEN PyDiv(Num(day.costs), Num(day.customers)) ELSE Num(0)

\* Customer Acquisition Cost of one day
cac(day) == IF day.customers > 0 THEN PyDiv(Num(day.costs), Num(day.customers)) ELSE Num(0)

\* percentage change from the value old to the value new
pct_change(new, old) ==
    IF old > 0 THEN PyMul(PyDiv(PySub(Num(new), Num(old)), Num(old)), Num(100)) ELSE Num(0)

calc_metrics(today, yesterday) ==
    [profit_today     |-> profit(today),
     profit_yesterday |-> profit(yesterday),
     cac_today        |-> cac(today),
     cac_yesterday    |-> cac(yesterday),
     sales_change     |-> pct_change(today.sales, yesterday.sales),
     cost_change      |-> pct_change(today.costs, yesterday.costs)]

\* the exception the subscripts of processing_node raise, in the order the
\* code evaluates them; None when the data has every field
subscript_error(state) ==
    IF Raised(ItemError(state, "data")) THEN KeyError
    ELSE IF Raised(ItemError(state.data, "today")) THEN ItemError(state.data, "today")
    ELSE IF Raised(ItemError(state.data, "yesterday")) THEN KeyError
    ELSE LET today == state.data.today
             yesterday == state.data.yesterday
         IN  FirstRaised(<<ItemError(today, "sales"), ItemError(today, "costs"),
                           ItemError(yesterday, "sales"), ItemError(yesterday, "costs"),
                           ItemError(today, "customers"), ItemError(yesterday, "customers")>>)

MetricNames == <<"profit_today", "profit_yesterday", "cac_today", "cac_yesterday",
                 "sales_change", "cost_change">>

processing_node(state) ==
    IF Raised(subscript_error(state)) THEN subscript_error(state)
    ELSE LET metrics == calc_metrics(state.data.today, state.data.yesterday)
             failure == FirstRaised([i \in 1..Len(MetricNames) |-> metrics[MetricNames[i]]])
         IN  IF Raised(failure) THEN failure ELSE Put(state, "metrics", metrics)

ReduceCosts == "Reduce costs to improve profitability"
ReviewMarketing == "Review marketing campaigns for efficiency"
GrowthText(sales_change) ==
    "Consider increasing advertising budget due to " \o Format2f(sales_change) \o "% sales growth"
AlertText(change) == "CAC increased by " \o Format2f(change) \o "%, which is significant."

\* profit_rule with a strict comparison: a zero profit reported as a loss
profit_rule_strict(profit_today) ==
    IF FGT(profit_today, Num(0))
    THEN [profit_status |-> "Profit: $" \o Format2f(profit_today), recommendations |-> <<>>]
    ELSE [profit_status |-> "Loss: $" \o Format2f(FNeg(profit_today)),
          recommendations |-> <<ReduceCosts>>]

\* profit or loss status
profit_rule(profit_today) ==
    IF FGE(profit_today, Num(0))
    THEN [profit_status |-> "Profit: $" \o Format2f(profit_today), recommendations |-> <<>>]
    ELSE [profit_status |-> "Loss: $" \o Format2f(FNeg(profit_today)),
          recommendations |-> <<ReduceCosts>>]

cac_change(cac_today, cac_yesterday) ==
    PyMul(PyDiv(PySub(cac_today, cac_yesterday), cac_yesterday), Num(100))

\* cac_rule with >= 20 in place of > 20
cac_rule_ge(cac_today, cac_yesterday) ==
    IF FGT(cac_yesterday, Num(0))
    THEN LET change == cac_change(cac_today, cac_yesterday) IN
         IF Raised(change) THEN change
         ELSE IF FGE(change, Num(20))
              THEN [alerts |-> <<AlertText(change)>>, recommendations |-> <<ReviewMarketing>>]
              ELSE [alerts |-> <<>>, recommendations |-> <<>>]
    ELSE [alerts |-> <<>>, recommendations |-> <<>>]

\* check for a significant CAC increase
cac_rule(cac_today, cac_yesterday) ==
    IF FGT(cac_yesterday, Num(0))
    THEN LET change == cac_change(cac_today, cac_yesterday) IN
         IF Raised(change) THEN change
         ELSE IF FGT(change, Num(20))
              THEN [alerts |-> <<AlertText(change)>>, recommendations |-> <<ReviewMarketing>>]
              ELSE [alerts |-> <<>>, recommendations |-> <<>>]
    ELSE [alerts |-> <<>>, recommendations |-> <<>>]

\* growth_rule with >= 0 in place of > 0
growth_rule_ge(sales_change) ==
    IF FGE(sales_change, Num(0)) THEN <<GrowthText(sales_change)>> ELSE <<>>

\* suggest a budget increase if sales are growing
growth_rule(sales_change) ==
    IF FGT(sales_change, Num(0)) THEN <<GrowthText(sales_change)>> ELSE <<>>

\* recommendation_node that puts the growth line first
recommendation_node_reordered(state) ==
    IF Raised(ItemError(state, "metrics")) THEN ItemError(state, "metrics")
    ELSE LET metrics == state.metrics
             p == profit_rule(metrics.profit_today)
             c == cac_rule(metrics.cac_today, metrics.cac_yesterday)
             g == growth_rule(metrics.sales_change)
         IN  IF Raised(c) THEN c
             ELSE Put(state, "recommendations",
                      [profit_status   |-> p.profit_status,
                       alerts          |-> c.alerts,
                       recommendations |-> g \o p.recommendations \o c.recommendations])

recommendation_node(state) ==
    IF Raised(ItemError(state, "metrics")) THEN ItemError(state, "metrics")
    ELSE LET metrics == state.metrics
             p == profit_rule(metrics.profit_today)
             c == cac_rule(metrics.cac_today, metrics.cac_yesterday)
             g == growth_rule(metrics.sales_change)
         IN  IF Raised(c) THEN c
             ELSE Put(state, "recommendations",
                      [profit_status   |-> p.profit_status,
                       alerts          |-> c.alerts,
                       recommendations |-> p.recommendations \o c.recommendations \o g])

\* --------------------------------------------------------------- the graph
END == "__end__"

\* build_graph with the edge input -> recommendation: processing is skipped
build_graph_skip ==
    [nodes       |-> {"input", "processing", "recommendation"},
     edges       |-> [input |-> "recommendation", processing |-> "recommendation",
                      recommendation |-> END],
     entry_point |-> "input"]

build_graph ==
    [nodes       |-> {"input", "processing", "recommendation"},
     edges       |-> [input |-> "processing", processing |-> "recommendation",
                      recommendation |-> END],
     entry_point |-> "input"]

NodeFn(name, state) ==
    CASE name = "input"          -> input_node(state)
      [] name = "processing"     -> processing_node(state)
      [] name = "recommendation" -> recommendation_node(state)

\* ------------------------------------------------------------- the inputs
Days == [sales : 0..MaxSales, costs : 0..MaxCosts, customers : 0..MaxCustomers]

Day(s, c, n) == [sales |-> s, costs |-> c, customers |-> n]

\* the inputs of the unit tests
ScenarioA == [today |-> Day(1000, 800, 50), yesterday |-> Day(900, 750, 45)]
ScenarioB == [today |-> Day(700, 800, 50), yesterday |-> Day(900, 750, 45)]
ScenarioC == [today |-> Day(1000, 800, 40), yesterday |-> Day(900, 750, 50)]
ScenarioD == EmptyDict

Snapshots == [today : Days, yesterday : Days] \cup {ScenarioA, ScenarioB, ScenarioC}

\* a dict with the keys today and yesterday, either of which may be absent
DataDict(t, y) ==
    [k \in (IF t = Absent THEN {} ELSE {"today"}) \cup (IF y = Absent THEN {} ELSE {"yesterday"})
       |-> IF k = "today" THEN t ELSE y]

\* a day that is absent, null, empty, without its customers field, or complete
Partial == {Absent, None, EmptyDict, [sales |-> 1, costs |-> 1], Day(1, 1, 1)}

\* what a caller may pass to run_agent
Inputs == {None} \cup {DataDict(t, y) : t, y \in Partial} \cup Snapshots

\* what a caller may pass to input_node
NodeStates == {EmptyDict} \cup {[data |-> d] : d \in Inputs}

\* inputs of the concurrent invocations
ScenarioInputs == {ScenarioA, ScenarioB, ScenarioC, ScenarioD,
                   [today |-> Day(1, 2, 5), yesterday |-> Day(2, 1, 3)],
                   DataDict(Day(1, 1, 1), None)}

\* ------------------------------------------------------------- the state
Runs == {1, 2}

VARIABLES
    pc,          \* pc[i]: where invocation i is
    input_data,  \* input_data[i]: the caller's input structure
    state,       \* state[i]: the State dict of invocation i
    result,      \* result[i]: what run_agent or the node returned
    error,       \* error[i]: the exception that reached the caller
    trace,       \* trace[i]: the nodes invocation i has executed, in order
    calls        \* calls[i]: the number of invocations made in slot i

vars == <<pc, input_data, state, result, error, trace, calls>>

NoError == "none"

\* one State object shared by every invocation
initial_state_shared(i) == 1

\* the State object invocation i works on: run_agent's local initial_state
initial_state_of(i) == i

Idle ==
    /\ pc = [i \in Runs |-> "idle"]
    /\ input_data = [i \in Runs |-> None]
    /\ state = [i \in Runs |-> EmptyDict]
    /\ result = [i \in Runs |-> None]
    /\ error = [i \in Runs |-> NoError]
    /\ trace = [i \in Runs |-> <<>>]
    /\ calls = [i \in Runs |-> 0]

Init == Idle

\* run_agent(d), for some d of the set D, up to the start of graph.invoke
Call(i, D, limit) ==
    /\ pc[i] \in {"idle", "returned", "raised"}
    /\ calls[i] < limit
    /\ \E d \in D :
         /\ input_data' = [input_data EXCEPT ![i] = d]
         /\ state' = [state EXCEPT ![initial_state_of(i)] = [data |-> d]]
    /\ calls' = [calls EXCEPT ![i] = @ + 1]
    /\ pc' = [pc EXCEPT ![i] = build_graph.entry_point]
    /\ result' = [result EXCEPT ![i] = None]
    /\ error' = [error EXCEPT ![i] = NoError]
    /\ trace' = [trace EXCEPT ![i] = <<>>]

\* graph.invoke executes the node invocation i is at
Step(i, node) ==
    /\ pc[i] = node
    /\ node \in build_graph.nodes
    /\ \E out \in {NodeFn(node, state[initial_state_of(i)])} :
       IF Raised(out)
       THEN /\ pc' = [pc EXCEPT ![i] = "raised"]
            /\ error' = [error EXCEPT ![i] = out.raise]
            /\ UNCHANGED <<state, input_data>>
       ELSE /\ pc' = [pc EXCEPT ![i] = build_graph.edges[node]]
            /\ state' = [state EXCEPT ![initial_state_of(i)] = out]
            /\ input_data' = [input_data EXCEPT ![i] = IF "data" \in DOMAIN out THEN out.data ELSE @]
            /\ UNCHANGED error
    /\ trace' = [trace EXCEPT ![i] = Append(@, node)]
    /\ UNCHANGED <<result, calls>>

InputNode(i) == Step(i, "input")
ProcessingNode(i) == Step(i, "processing")
RecommendationNode(i) == Step(i, "recommendation")

\* return final_state["recommendations"]
Return(i) ==
    /\ pc[i] = END
    /\ LET final_state == state[initial_state_of(i)] IN
       IF Raised(ItemError(final_state, "recommendations"))
       THEN /\ pc' = [pc EXCEPT ![i] = "raised"]
            /\ error' = [error EXCEPT ![i] = KeyError.raise]
            /\ UNCHANGED result
       ELSE /\ pc' = [pc EXCEPT ![i] = "returned"]
            /\ result' = [result EXCEPT ![i] = final_state.recommendations]
            /\ UNCHANGED error
    /\ UNCHANGED <<input_data, state, trace, calls>>

\* one invocation of run_agent
Next ==
    \/ Call(1, Inputs, 1)
    \/ InputNode(1)
    \/ ProcessingNode(1)
    \/ RecommendationNode(1)
    \/ Return(1)

Spec == Init /\ [][Next]_vars

\* graph.invoke is synchronous: it runs the node a run is at to completion,
\* moves on along the edge, and run_agent returns once END is reached; a run
\* does not stay where it is. Every step of run i changes pc[i], and a step
\* is possible wherever pc[i] is a node or END, so this is weak fairness of
\* the steps of run i.
Places == build_graph.nodes \cup {END, "idle", "returned", "raised"}

Advance(i) ==
    /\ pc[i] \in build_graph.nodes \cup {END}
    /\ \E p \in Places \ {pc[i]} : pc' = [pc EXCEPT ![i] = p]

Fair == WF_pc(Advance(1))

FairSpec == Spec /\ Fair

\* two callers, each invoking run_agent up to MaxCalls times, their stages interleaved
NextConc ==
    \E i \in Runs :
        \/ Call(i, ScenarioInputs, MaxCalls)
        \/ InputNode(i)
        \/ ProcessingNode(i)
        \/ RecommendationNode(i)
        \/ Return(i)

SpecConc == Init /\ [][NextConc]_vars

\* a direct call of input_node(st), as a unit test makes it
InitNode ==
    /\ pc = [i \in Runs |-> IF i = 1 THEN "call_input_node" ELSE "idle"]
    /\ input_data = [i \in Runs |-> None]
    /\ state \in {[i \in Runs |-> IF i = 1 THEN st ELSE EmptyDict] : st \in NodeStates}
    /\ result = [i \in Runs |-> None]
    /\ error = [i \in Runs |-> NoError]
    /\ trace = [i \in Runs |-> <<>>]
    /\ calls = [i \in Runs |-> 0]

CallInputNode ==
    /\ pc[1] = "call_input_node"
    /\ \E out \in {input_node(state[1])} :
         IF Raised(out)
         THEN /\ pc' = [pc EXCEPT ![1] = "node_raised"]
              /\ error' = [error EXCEPT ![1] = out.raise]
              /\ UNCHANGED result
         ELSE /\ pc' = [pc EXCEPT ![1] = "node_returned"]
              /\ result' = [result EXCEPT ![1] = out]
              /\ UNCHANGED error
    /\ trace' = [trace EXCEPT ![1] = Append(@, "input")]
    /\ UNCHANGED <<input_data, state, calls>>

NextNode == CallInputNode

SpecNode == InitNode /\ [][NextNode]_vars

\* ------------------------------------------------------------- properties
Count(s, x) == Cardinality({j \in DOMAIN s : s[j] = x})
Has(s, x) == \E j \in DOMAIN s : s[j] = x

FullDay(day) == {"sales", "costs", "customers"} \subseteq DOMAIN day

\* a fully populated input: both days present with all three figures
ValidSnapshot(d) ==
    /\ {"today", "yesterday"} \subseteq DOMAIN d
    /\ FullDay(d.today)
    /\ FullDay(d.yesterday)

\* data, data.today or data.yesterday is missing or null
MissingOrNull(d) == d = None \/ Get(d, "today") = None \/ Get(d, "yesterday") = None

\* the same, or one of them is empty
MissingNullOrEmpty(d) ==
    \/ d \in {None, EmptyDict}
    \/ Get(d, "today") \in {None, EmptyDict}
    \/ Get(d, "yesterday") \in {None, EmptyDict}

NodeOrder == <<"input", "processing", "recommendation">>

\* C1: when validation fails the run stops at the validator with a ValueError:
\* processing_node and recommendation_node are never executed, no metrics and
\* no recommendations are set, and nothing is returned.
C1_HaltsAtValidator ==
    \A i \in Runs :
        (calls[i] > 0 /\ MissingOrNull(input_data[i])) =>
            /\ pc[i] \in {"input", "raised"}
            /\ (pc[i] = "input" => trace[i] = <<>> /\ error[i] = NoError)
            /\ (pc[i] = "raised" => trace[i] = <<"input">> /\ error[i] = "ValueError")
            /\ DOMAIN state[i] = {"data"}
            /\ result[i] = None

C1_Witness ==
    /\ pc[1] = "raised"
    /\ input_data[1] = ScenarioD
    /\ error[1] = "ValueError"
    /\ trace[1] = <<"input">>
    /\ result[1] = None

NodeCallDone == pc[1] \in {"node_returned", "node_raised"}

\* C2 as stated: input_node raises exactly when data, data.today or
\* data.yesterday is missing or null, and otherwise returns the state unchanged.
C2_Original ==
    NodeCallDone =>
        /\ (pc[1] = "node_raised") <=> MissingOrNull(Get(state[1], "data"))
        /\ (pc[1] = "node_returned" => result[1] = state[1])

\* C2 amended: input_node raises ValueError exactly when data, data.today or
\* data.yesterday is missing, null or empty; every other input passes whatever
\* the days contain, and the state is returned unchanged.
C2_Validation ==
    NodeCallDone =>
        /\ (pc[1] = "node_raised") <=> MissingNullOrEmpty(Get(state[1], "data"))
        /\ (pc[1] = "node_raised" => error[1] = "ValueError" /\ result[1] = None)
        /\ (pc[1] = "node_returned" => result[1] = state[1] /\ error[1] = NoError)

C2_Witness ==
    /\ pc[1] = "node_returned"
    /\ state[1] = [data |-> [today |-> [sales |-> 1, costs |-> 1], yesterday |-> Day(1, 1, 1)]]
    /\ result[1] = state[1]

\* C3: for every valid Snapshot the status is "Profit: $" and profit_today
\* when today.sales - today.costs >= 0, with no "Reduce costs" recommendation,
\* and "Loss: $" and the magnitude of the loss otherwise, with exactly one.
C3_ProfitRule ==
    \A i \in Runs :
        (pc[i] = "returned" /\ ValidSnapshot(input_data[i])) =>
            LET p == input_data[i].today.sales - input_data[i].today.costs
                r == result[i]
            IN  IF p >= 0
                THEN /\ r.profit_status = "Profit: $" \o ToString(p) \o ".00"
                     /\ Count(r.recommendations, ReduceCosts) = 0
                ELSE /\ r.profit_status = "Loss: $" \o ToString(-p) \o ".00"
                     /\ Count(r.recommendations, ReduceCosts) = 1

C3_Witness ==
    /\ pc[1] = "returned"
    /\ input_data[1] = ScenarioB
    /\ result[1].profit_status = "Loss: $100.00"
    /\ result[1].recommendations = <<ReduceCosts>>

\* C4: the CAC rule fires exactly when cac_yesterday > 0 and cac_change > 20;
\* then there is exactly one alert and one "Review marketing" recommendation,
\* and otherwise (cac_change = 20 and cac_yesterday = 0 included) there is
\* no alert and no such recommendation.
C4_CacRule ==
    \A i \in Runs :
        (pc[i] = "returned" /\ ValidSnapshot(input_data[i])) =>
            LET m == state[i].metrics
                t == input_data[i].today
                y == input_data[i].yesterday
                change == cac_change(m.cac_today, m.cac_yesterday)
                fires == FGT(m.cac_yesterday, Num(0)) /\ FGT(change, Num(20))
                r == result[i]
            IN  /\ FGT(m.cac_yesterday, Num(0)) <=> (y.costs > 0 /\ y.customers > 0)
                /\ fires => /\ r.alerts = <<AlertText(change)>>
                            /\ Count(r.recommendations, ReviewMarketing) = 1
                            /\ t.customers > 0
                            /\ 5 * t.costs * y.customers >= 6 * y.costs * t.customers
                /\ ~fires => /\ r.alerts = <<>>
                             /\ Count(r.recommendations, ReviewMarketing) = 0
                             /\ \/ y.costs = 0 \/ y.customers = 0 \/ t.customers = 0
                                \/ 5 * t.costs * y.customers <= 6 * y.costs * t.customers

C4_Witness ==
    /\ pc[1] = "returned"
    /\ input_data[1] = ScenarioC
    /\ result[1].alerts = <<"CAC increased by 33.33%, which is significant.">>
    /\ Count(result[1].recommendations, ReviewMarketing) = 1

\* C5: the growth recommendation is present exactly when sales_change > 0,
\* which is exactly when yesterday.sales > 0 and today.sales > yesterday.sales.
C5_GrowthRule ==
    \A i \in Runs :
        (pc[i] = "returned" /\ ValidSnapshot(input_data[i])) =>
            LET m == state[i].metrics
                t == input_data[i].today
                y == input_data[i].yesterday
                grows == y.sales > 0 /\ t.sales > y.sales
                r == result[i].recommendations
            IN  /\ FGT(m.sales_change, Num(0)) <=> grows
                /\ grows => Count(r, GrowthText(m.sales_change)) = 1
                /\ Len(r) = Count(r, ReduceCosts) + Count(r, ReviewMarketing)
                            + (IF grows THEN 1 ELSE 0)

C5_Witness ==
    /\ pc[1] = "returned"
    /\ input_data[1] = ScenarioA
    /\ Has(result[1].recommendations,
           "Consider increasing advertising budget due to 11.11% sales growth")

\* C6: on a valid Snapshot of non-negative numbers no stage raises; cac is
\* costs / customers when customers > 0 and exactly 0 otherwise, never
\* negative, and the changes are 0 when yesterday's base value is 0.
C6_Total ==
    \A i \in Runs :
        (calls[i] > 0 /\ ValidSnapshot(input_data[i])) =>
            /\ pc[i] # "raised"
            /\ error[i] = NoError
            /\ pc[i] = "recommendation" =>
                 LET m == state[i].metrics
                     t == input_data[i].today
                     y == input_data[i].yesterday
                 IN  /\ m.cac_today = IF t.customers > 0
                                      THEN FQuot(FALSE, BFromInt(t.costs), BFromInt(t.customers), 0)
                                      ELSE FZero
                     /\ m.cac_yesterday = IF y.customers > 0
                                          THEN FQuot(FALSE, BFromInt(y.costs), BFromInt(y.customers), 0)
                                          ELSE FZero
                     /\ ~m.cac_today.neg /\ ~m.cac_yesterday.neg
                     /\ y.sales = 0 => m.sales_change = FZero
                     /\ y.costs = 0 => m.cost_change = FZero

C6_Witness ==
    /\ pc[1] = "returned"
    /\ input_data[1] = [today |-> Day(1, 2, 0), yesterday |-> Day(0, 0, 0)]
    /\ state[1].metrics.cac_today = FZero
    /\ state[1].metrics.sales_change = FZero
    /\ result[1] = [profit_status |-> "Loss: $1.00", alerts |-> <<>>,
                    recommendations |-> <<ReduceCosts>>]

Rank(x) == IF x = ReduceCosts THEN 1 ELSE IF x = ReviewMarketing THEN 2 ELSE 3

\* C7: the recommendations come in rule order, "Reduce costs" before "Review
\* marketing" before the growth line, none twice; at most 3 of them and at
\* most 1 alert.
C7_Order ==
    \A i \in Runs :
        pc[i] = "returned" =>
            LET r == result[i].recommendations IN
            /\ \A j, k \in DOMAIN r : j < k => Rank(r[j]) < Rank(r[k])
            /\ Len(r) <= 3
            /\ Len(result[i].alerts) <= 1

C7_Witness ==
    /\ pc[1] = "returned"
    /\ Len(result[1].recommendations) = 3
    /\ result[1].recommendations[1] = ReduceCosts
    /\ result[1].recommendations[2] = ReviewMarketing
    /\ Len(result[1].alerts) = 1

\* the nodes a valid run has executed match the place it is at
LinearRun(i) ==
    /\ pc[i] # "raised"
    /\ pc[i] = "input" => trace[i] = <<>>
    /\ pc[i] = "processing" => trace[i] = SubSeq(NodeOrder, 1, 1)
    /\ pc[i] = "recommendation" => trace[i] = SubSeq(NodeOrder, 1, 2) /\ "metrics" \in DOMAIN state[i]
    /\ pc[i] \in {END, "returned"} => trace[i] = NodeOrder
    /\ pc[i] = "returned" => "profit_status" \in DOMAIN result[i]

\* C8: a run on a valid input executes input_node, processing_node and
\* recommendation_node once each in that order, metrics being set before
\* recommendation_node runs, and it eventually returns an Outcome with a
\* profit_status.
C8_Linear ==
    /\ [](\A i \in Runs : (calls[i] > 0 /\ ValidSnapshot(input_data[i])) => LinearRun(i))
    /\ (calls[1] > 0 /\ ValidSnapshot(input_data[1]))
          ~> (pc[1] = "returned" /\ trace[1] = NodeOrder /\ "profit_status" \in DOMAIN result[1])

C8_Witness ==
    /\ pc[1] = "returned"
    /\ ValidSnapshot(input_data[1])
    /\ trace[1] = NodeOrder
    /\ result[1].profit_status = "Profit: $200.00"

\* what run_agent(d) yields when it runs alone: the composition of the nodes
run_alone(d) ==
    LET s1 == input_node([data |-> d])
        s2 == processing_node(s1)
        s3 == recommendation_node(s2)
    IN  IF Raised(s1) THEN [error |-> s1.raise, result |-> None]
        ELSE IF Raised(s2) THEN [error |-> s2.raise, result |-> None]
        ELSE IF Raised(s3) THEN [error |-> s3.raise, result |-> None]
        ELSE [error |-> NoError, result |-> s3.recommendations]

AloneOutcome == [d \in ScenarioInputs |-> run_alone(d)]

\* C9: under every interleaving of two callers, and however many invocations
\* came before, each invocation ends with exactly the Outcome or the failure
\* it has when run alone.
C9_Independent ==
    \A i \in Runs :
        /\ pc[i] = "returned" => /\ result[i] = AloneOutcome[input_data[i]].result
                                 /\ error[i] = NoError
        /\ pc[i] = "raised" => /\ error[i] = AloneOutcome[input_data[i]].error
                               /\ result[i] = None

C9_Witness ==
    /\ pc[1] = "returned" /\ calls[1] = 2 /\ input_data[1] = ScenarioA
    /\ pc[2] = "returned" /\ calls[2] = 2 /\ input_data[2] = ScenarioC
    /\ result[1].alerts = <<>>
    /\ result[2].alerts = <<"CAC increased by 33.33%, which is significant.">>

\* the fields of the dict new that differ from those of old
Changed(old, new) ==
    {k \in DOMAIN old \cup DOMAIN new :
        k \notin DOMAIN old \/ k \notin DOMAIN new \/ old[k] # new[k]}

\* C10: input_node changes nothing, processing_node only the metrics field,
\* recommendation_node only the recommendations field, and state.data stays the
\* caller's input, itself unchanged, for the whole run.
C10_Frame ==
    [][\A i \in Runs :
          /\ pc[i] = "input" => Changed(state[i], state'[i]) = {}
          /\ pc[i] = "processing" => Changed(state[i], state'[i]) \subseteq {"metrics"}
          /\ pc[i] = "recommendation" => Changed(state[i], state'[i]) \subseteq {"recommendations"}
          /\ pc[i] \in {END, "returned", "raised"} /\ pc'[i] = pc[i] => state'[i] = state[i]
          /\ pc[i] \in build_graph.nodes \cup {END} => input_data'[i] = input_data[i]
          /\ pc'[i] # "idle" => Get(state'[i], "data") = input_data'[i]
      ]_vars

C10_Witness ==
    /\ pc[1] = "returned"
    /\ input_data[1] = ScenarioC
    /\ state[1].data = ScenarioC
    /\ DOMAIN state[1] = {"data", "metrics", "recommendations"}
====
